---- MODULE Spec2Model ----
(***************************************************************************)
(* A model of meshio's XDMF reader and writer (src/meshio/xdmf_io.py).     *)
(*                                                                         *)
(* Python values are modelled as follows.                                  *)
(*   - an insertion-ordered dict is a sequence of [key, value] records     *)
(*     with distinct keys (DictSet, DictGet, DictHas, DictKeys);           *)
(*   - a numpy array is [dtype, shape, flat]: its element kind, its shape  *)
(*     and its elements in row-major order;                                *)
(*   - an uncaught exception is a result whose status is the exception's   *)
(*     name; "ok" is a normal return;                                      *)
(*   - an offset r of the Python code (0-based) is element r + 1 of the    *)
(*     TLA+ sequence (At).                                                 *)
(***************************************************************************)
EXTENDS Integers, Sequences, FiniteSets, TLC

VARIABLES pc, arg, ret, handles

vars == <<pc, arg, ret, handles>>

(***************************************************************************)
(* Bounds of the model.                                                    *)
(***************************************************************************)
MaxRecords == 2
MaxRows == 2
MaxTypes == 2
MaxChildren == 2
MaxOpen == 2

(***************************************************************************)
(* Generic helpers for Python dicts and sequences.                         *)
(***************************************************************************)
Absent == "<absent>"

RECURSIVE DictHas(_, _)
DictHas(d, k) ==
    IF d = <<>> THEN FALSE
    ELSE IF Head(d).key = k THEN TRUE ELSE DictHas(Tail(d), k)

RECURSIVE DictGet(_, _)
DictGet(d, k) ==
    IF Head(d).key = k THEN Head(d).value ELSE DictGet(Tail(d), k)

DictSet(d, k, v) ==
    IF DictHas(d, k)
    THEN [i \in 1..Len(d) |-> IF d[i].key = k THEN [key |-> k, value |-> v] ELSE d[i]]
    ELSE Append(d, [key |-> k, value |-> v])

DictKeys(d) == [i \in 1..Len(d) |-> d[i].key]

Range(s) == {s[i] : i \in 1..Len(s)}

RECURSIVE Concat(_)
Concat(ss) == IF ss = <<>> THEN <<>> ELSE Head(ss) \o Concat(Tail(ss))

RECURSIVE Prod(_)
Prod(s) == IF s = <<>> THEN 1 ELSE Head(s) * Prod(Tail(s))

RECURSIVE SumSeq(_)
SumSeq(s) == IF s = <<>> THEN 0 ELSE Head(s) + SumSeq(Tail(s))

At(data, r) == data[r + 1]

SetMin(S) == CHOOSE x \in S : \A y \in S : x <= y

RECURSIVE SortedSeq(_)
SortedSeq(S) ==
    IF S = {} THEN <<>> ELSE <<SetMin(S)>> \o SortedSeq(S \ {SetMin(S)})

(***************************************************************************)
(* Type tables.                                                            *)
(***************************************************************************)
IntKinds == {"int32", "int64"}
FloatKinds == {"float32", "float64"}
NumericKinds == IntKinds \cup FloatKinds

xdmf_to_numpy_type(data_type, precision) ==
    IF data_type = "Int" /\ precision = "4" THEN [status |-> "ok", kind |-> "int32"]
    ELSE IF data_type = "Int" /\ precision = "8" THEN [status |-> "ok", kind |-> "int64"]
    ELSE IF data_type = "Float" /\ precision = "4" THEN [status |-> "ok", kind |-> "float32"]
    ELSE IF data_type = "Float" /\ precision = "8" THEN [status |-> "ok", kind |-> "float64"]
    ELSE [status |-> "AssertionError", kind |-> Absent]

numpy_to_xdmf_dtype ==
    [k \in NumericKinds |->
        CASE k = "int32" -> <<"Int", "4">>
          [] k = "int64" -> <<"Int", "8">>
          [] k = "float32" -> <<"Float", "4">>
          [] k = "float64" -> <<"Float", "8">>]

xdmf_idx_to_meshio_type ==
    (1 :> "vertex") @@ (4 :> "triangle") @@ (5 :> "quad") @@ (6 :> "tetra")
    @@ (7 :> "pyramid") @@ (8 :> "wedge") @@ (9 :> "hexahedron")

meshio_type_to_xdmf_index ==
    [t \in {xdmf_idx_to_meshio_type[k] : k \in DOMAIN xdmf_idx_to_meshio_type} |->
        CHOOSE k \in DOMAIN xdmf_idx_to_meshio_type : xdmf_idx_to_meshio_type[k] = t]

xdmf_to_meshio_type ==
    ("Polyvertex" :> "vertex") @@ ("Triangle" :> "triangle")
    @@ ("Quadrilateral" :> "quad") @@ ("Tetrahedron" :> "tetra")
    @@ ("Pyramid" :> "pyramid") @@ ("Wedge" :> "wedge")
    @@ ("Hexahedron" :> "hexahedron") @@ ("Edge_3" :> "line3")
    @@ ("Tri_6" :> "triangle6") @@ ("Quad_8" :> "quad8")
    @@ ("Tet_10" :> "tetra10") @@ ("Pyramid_13" :> "pyramid13")
    @@ ("Wedge_15" :> "wedge15") @@ ("Hex_20" :> "hexahedron20")

meshio_to_xdmf_type ==
    [t \in {xdmf_to_meshio_type[k] : k \in DOMAIN xdmf_to_meshio_type} |->
        CHOOSE k \in DOMAIN xdmf_to_meshio_type : xdmf_to_meshio_type[k] = t]

xdmf_idx_to_num_nodes ==
    (1 :> 1) @@ (4 :> 3) @@ (5 :> 4) @@ (6 :> 4) @@ (7 :> 5) @@ (8 :> 6)
    @@ (9 :> 8) @@ (11 :> 6)

(***************************************************************************)
(* _translate_mixed_cells: the decoder of the mixed-cell buffer.           *)
(***************************************************************************)

\* The while loop of lines 95-101: collect the tag and the offset of every
\* record.  A tag without an entry in xdmf_idx_to_num_nodes raises KeyError.
\* The loop stops as soon as r >= len(data); it does not look at whether the
\* last record is complete.
RECURSIVE ScanRecords(_, _, _, _, _)
ScanRecords(flat, r, types, offsets, reads) ==
    IF r >= Len(flat)
    THEN [status |-> "ok", types |-> types, offsets |-> offsets, reads |-> reads]
    ELSE IF At(flat, r) \notin DOMAIN xdmf_idx_to_num_nodes
    THEN [status |-> "KeyError", types |-> types, offsets |-> offsets,
          reads |-> reads \cup {r}]
    ELSE ScanRecords(flat, r + xdmf_idx_to_num_nodes[At(flat, r)] + 1,
                     Append(types, At(flat, r)), Append(offsets, r),
                     reads \cup {r})

\* numpy.unique(types): the distinct tags in ascending order.
Uniques(types) == SortedSeq(Range(types))

\* numpy.where(types == u)[0]: the positions of tag u, ascending.
Bin(types, u) == SortedSeq({i - 1 : i \in {j \in 1..Len(types) : types[j] = u}})

\* The index matrix of lines 116-118: row per record of the bin, the n
\* offsets that follow the record's tag.
RecordIndices(offsets, b, n) ==
    [i \in 1..Len(b) |-> [j \in 1..n |-> At(offsets, b[i]) + j]]

\* A variant of FancyIndex that clips the indices to the buffer instead of
\* checking them (numpy.take(..., mode='clip')).
FancyIndexClip(flat, indices) ==
    LET last == Len(flat) - 1
        clip(o) == IF o > last THEN last ELSE o
    IN  [status |-> "ok",
         rows |-> [i \in 1..Len(indices) |->
                      [j \in 1..Len(indices[i]) |-> At(flat, clip(indices[i][j]))]],
         reads |-> {clip(o) : o \in UNION {Range(row) : row \in Range(indices)}}]

\* data[indices] (line 119).  The indices are non-negative; numpy checks
\* them against the length and raises IndexError before fetching anything.
FancyIndex(flat, indices) ==
    LET wanted == UNION {Range(row) : row \in Range(indices)}
    IN  IF \E o \in wanted : o >= Len(flat)
        THEN [status |-> "IndexError", rows |-> <<>>, reads |-> {}]
        ELSE [status |-> "ok",
              rows |-> [i \in 1..Len(indices) |->
                           [j \in 1..Len(indices[i]) |-> At(flat, indices[i][j])]],
              reads |-> wanted]

\* The loop of lines 111-119 over bins.items(); bins was built by a dict
\* comprehension over uniques, so its iteration order is ascending tag.
RECURSIVE BindBins(_, _, _, _, _, _)
BindBins(data, types, offsets, todo, cells, reads) ==
    IF todo = <<>> THEN [status |-> "ok", cells |-> cells, reads |-> reads]
    ELSE
      LET tpe == Head(todo)
          b == Bin(types, tpe)
      IN  IF tpe \notin DOMAIN xdmf_idx_to_meshio_type
          THEN [status |-> "KeyError", cells |-> <<>>, reads |-> reads]
          ELSE
            LET meshio_type == xdmf_idx_to_meshio_type[tpe]
                n == xdmf_idx_to_num_nodes[tpe]
                checked == reads \cup {At(offsets, b[i]) : i \in 1..Len(b)}
                got == FancyIndex(data.flat, RecordIndices(offsets, b, n))
            IN  IF got.status # "ok"
                THEN [status |-> got.status, cells |-> <<>>, reads |-> checked]
                ELSE BindBins(data, types, offsets, Tail(todo),
                              DictSet(cells, meshio_type,
                                      [dtype |-> data.dtype,
                                       shape |-> <<Len(b), n>>,
                                       flat |-> Concat(got.rows)]),
                              checked \cup got.reads)

\* `data` is the one-dimensional array of the Mixed topology's DataItem.  An
\* array of another rank makes data[r] an array, which the dict lookup of
\* line 101 rejects (TypeError: unhashable).
translate_mixed_cells(data) ==
    IF Len(data.shape) = 0 \/ (Len(data.shape) > 1 /\ data.shape[1] > 0)
    THEN [status |-> "TypeError", cells |-> <<>>, reads |-> {}]
    ELSE
      LET scan == ScanRecords(data.flat, 0, <<>>, <<>>, {})
      IN  IF scan.status # "ok"
          THEN [status |-> scan.status, cells |-> <<>>, reads |-> scan.reads]
          ELSE BindBins(data, scan.types, scan.offsets, Uniques(scan.types),
                        <<>>, scan.reads)

(***************************************************************************)
(* Numbers as text.  An integer element is its value.  A floating element  *)
(* is modelled in fixed point with one decimal digit more than '%.15e'     *)
(* prints (sixteen significant digits): the float 3.0 is 30, and a float64 *)
(* that needs a seventeenth digit has a last digit other than 0.  A text   *)
(* token is [fmt, val]: fmt "d" is a plain decimal integer, fmt "e" a      *)
(* number in scientific notation with val in the same fixed point.         *)
(***************************************************************************)
Round16(v) == 10 * ((v + 5) \div 10)

\* numpy_to_xml_string(data, fmt) of lines 314-317: one token per element of
\* data.flatten().
numpy_to_xml_string(data, fmt) ==
    [i \in 1..Len(data.flat) |->
        LET v == data.flat[i]
        IN  IF fmt = "%d"
            THEN [fmt |-> "d", val |-> IF data.dtype \in IntKinds THEN v ELSE v \div 10]
            ELSE [fmt |-> "e",
                  val |-> IF data.dtype \in IntKinds THEN 10 * v
                          ELSE IF data.dtype = "float64" THEN Round16(v)
                          ELSE v]]

\* numpy.array(tokens, dtype=kind): int() rejects a token in scientific
\* notation; float() accepts both forms.
ParseTokens(tokens, kind) ==
    IF kind \in IntKinds
    THEN IF \E i \in 1..Len(tokens) : tokens[i].fmt # "d"
         THEN [status |-> "ValueError", flat |-> <<>>]
         ELSE [status |-> "ok", flat |-> [i \in 1..Len(tokens) |-> tokens[i].val]]
    ELSE [status |-> "ok",
          flat |-> [i \in 1..Len(tokens) |->
                       IF tokens[i].fmt = "d" THEN 10 * tokens[i].val
                       ELSE tokens[i].val]]

\* ndarray.reshape(dims)
Reshape(kind, flat, dims) ==
    IF Prod(dims) # Len(flat)
    THEN [status |-> "ValueError"]
    ELSE [status |-> "ok", array |-> [dtype |-> kind, shape |-> dims, flat |-> flat]]

(***************************************************************************)
(* The external binary containers (HDF5 files) next to the document.  A    *)
(* container is a set of group paths and a map from dataset paths to the   *)
(* stored arrays; a path is the sequence of its segments.                  *)
(***************************************************************************)
StoredArray == [dtype |-> "int64", shape |-> <<1, 3>>, flat |-> <<0, 1, 2>>]

Containers ==
    (<<"data.h5">> :>
        [groups |-> {<<>>, <<"a">>},
         datasets |-> (<<"a", "b">> :> StoredArray)])
    @@ (<<"more.h5">> :>
        [groups |-> {<<>>},
         datasets |-> (<<"c">> :> StoredArray)])

\* str.split(sep) on a string given as the sequence of its tokens.
RECURSIVE Split(_, _, _)
Split(s, sep, cur) ==
    IF s = <<>> THEN <<cur>>
    ELSE IF Head(s) = sep THEN <<cur>> \o Split(Tail(s), sep, <<>>)
    ELSE Split(Tail(s), sep, cur \o <<Head(s)>>)

\* The loop `for key in h5path[1:].split('/'): f = f[key]` of lines 173-174
\* and the final f[()] of line 176.  `at` is the path of the object f names.
RECURSIVE Descend(_, _, _)
Descend(c, at, keys) ==
    IF keys = <<>>
    THEN IF at \in DOMAIN c.datasets
         THEN [status |-> "ok", array |-> c.datasets[at]]
         ELSE [status |-> "TypeError"]
    ELSE IF at \in DOMAIN c.datasets THEN [status |-> "ValueError"]
    ELSE IF Head(keys) = <<>> THEN [status |-> "KeyError"]
    ELSE LET to == at \o Head(keys)
         IN  IF to \in c.groups \/ to \in DOMAIN c.datasets
             THEN Descend(c, to, Tail(keys))
             ELSE [status |-> "KeyError"]

(***************************************************************************)
(* XdmfReader.read_data_item.  A DataItem element is [attrib, text, ref]:  *)
(* attrib is the attribute dict (a function from names to values, with     *)
(* Dimensions already a sequence of integers), text the whitespace         *)
(* separated tokens of an inline item, ref the ':' separated parts of an   *)
(* external reference, each part the sequence of its path tokens.          *)
(* The result carries `opened`: the containers the call opened with        *)
(* h5py.File and did not close (the function has no close and no `with`).  *)
(***************************************************************************)
Fail(e) == [status |-> e, opened |-> <<>>]

\* Lines 170-176, once h5py.File(full_hdf5_path, 'r') has succeeded.
ReadOpenedContainer(filename, h5path) ==
    IF h5path = <<>> THEN [status |-> "IndexError", opened |-> <<filename>>]
    ELSE IF Head(h5path) # "/" THEN [status |-> "AssertionError", opened |-> <<filename>>]
    ELSE LET got == Descend(Containers[filename], <<>>, Split(Tail(h5path), "/", <<>>))
         IN  IF got.status # "ok"
             THEN [status |-> got.status, opened |-> <<filename>>]
             ELSE [status |-> "ok", array |-> got.array, opened |-> <<filename>>]

read_data_item(data_item, dt_key) ==
    LET a == data_item.attrib IN
    IF "Dimensions" \notin DOMAIN a \/ dt_key \notin DOMAIN a
       \/ "Precision" \notin DOMAIN a \/ "Format" \notin DOMAIN a
    THEN Fail("KeyError")
    ELSE IF a["Format"] = "XML"
    THEN LET kind == xdmf_to_numpy_type(a[dt_key], a["Precision"])
         IN  IF kind.status # "ok" THEN Fail(kind.status)
             ELSE LET parsed == ParseTokens(data_item.text, kind.kind)
                  IN  IF parsed.status # "ok" THEN Fail(parsed.status)
                      ELSE LET shaped == Reshape(kind.kind, parsed.flat, a["Dimensions"])
                           IN  IF shaped.status # "ok" THEN Fail(shaped.status)
                               ELSE [status |-> "ok", array |-> shaped.array,
                                     opened |-> <<>>]
    ELSE IF a["Format"] # "HDF" THEN Fail("AssertionError")
    ELSE IF Len(data_item.ref) # 2 THEN Fail("ValueError")
    ELSE LET filename == data_item.ref[1]
             h5path == data_item.ref[2]
         IN  IF filename \notin DOMAIN Containers THEN Fail("IOError")
             ELSE ReadOpenedContainer(filename, h5path)

(***************************************************************************)
(* The raw/structured cell-data conversion of meshio.vtk_io (imported at   *)
(* line 18, not part of this file).  Structured cell data is a dict from   *)
(* cell type to a dict from data-set name to that type's array; raw cell   *)
(* data is a dict from name to one array spanning all types.  An optional  *)
(* argument is [isNone, dict]: None, or the dict that was passed.          *)
(***************************************************************************)
NoArray == [dtype |-> Absent, shape |-> <<>>, flat |-> <<>>]

LeadingDim(a) == IF a.shape = <<>> THEN 0 ELSE a.shape[1]

RowSize(a) == IF a.shape = <<>> THEN 1 ELSE Prod(Tail(a.shape))

\* a[r : r + n] along the first axis; a Python slice stops at the end.
SliceRows(a, r, n) ==
    LET have == LeadingDim(a)
        lo == IF r > have THEN have ELSE r
        hi == IF r + n > have THEN have ELSE r + n
    IN  [dtype |-> a.dtype,
         shape |-> <<hi - lo>> \o Tail(a.shape),
         flat |-> SubSeq(a.flat, lo * RowSize(a) + 1, hi * RowSize(a))]

\* numpy.concatenate of arrays along the first axis
ConcatArrays(a, b) ==
    [dtype |-> a.dtype,
     shape |-> <<LeadingDim(a) + LeadingDim(b)>> \o Tail(a.shape),
     flat |-> a.flat \o b.flat]

RECURSIVE MergeNames(_, _)
MergeNames(raw, d) ==
    IF d = <<>> THEN raw
    ELSE MergeNames(
            IF DictHas(raw, Head(d).key)
            THEN DictSet(raw, Head(d).key,
                         ConcatArrays(DictGet(raw, Head(d).key), Head(d).value))
            ELSE DictSet(raw, Head(d).key, Head(d).value),
            Tail(d))

\* raw_from_cell_data(cell_data): per name, the types' arrays concatenated in
\* the order of the structured dict.  A cell_data left at None yields no raw
\* entry (the conversion is total).
RECURSIVE raw_from_cell_data_loop(_, _)
raw_from_cell_data_loop(cell_data, raw) ==
    IF cell_data = <<>> THEN raw
    ELSE raw_from_cell_data_loop(Tail(cell_data), MergeNames(raw, Head(cell_data).value))

raw_from_cell_data(cell_data) ==
    IF cell_data.isNone THEN <<>> ELSE raw_from_cell_data_loop(cell_data.dict, <<>>)

\* cell_data_from_raw(cells, cell_data_raw): each raw array is cut, in the
\* iteration order of `cells`, into consecutive pieces of len(cells[k]) rows.
RECURSIVE CutByCells(_, _, _)
CutByCells(cells, d, r) ==
    IF cells = <<>> THEN <<>>
    ELSE <<SliceRows(d, r, LeadingDim(Head(cells).value))>>
         \o CutByCells(Tail(cells), d, r + LeadingDim(Head(cells).value))

cell_data_from_raw(cells, cell_data_raw) ==
    [i \in 1..Len(cells) |->
        [key |-> cells[i].key,
         value |-> [n \in 1..Len(cell_data_raw) |->
                       [key |-> cell_data_raw[n].key,
                        value |-> CutByCells(cells, cell_data_raw[n].value, 0)[i]]]]]

(***************************************************************************)
(* The document tree.  An element is [tag, attrib, children, text, ref];   *)
(* attrib is a function from attribute names to values.  Version is the    *)
(* sequence of the '.' separated parts of the attribute.                   *)
(***************************************************************************)
PyNone == [isNone |-> TRUE, dict |-> <<>>]

Some(d) == [isNone |-> FALSE, dict |-> d]

Element(tag, attrib, children) ==
    [tag |-> tag, attrib |-> attrib, children |-> children, text |-> <<>>, ref |-> <<>>]

EmptyMesh ==
    [points |-> NoArray, cells |-> <<>>, point_data |-> <<>>,
     cell_data_raw |-> <<>>, opened |-> <<>>]

\* The return statement of lines 235-237 and 297-299.
MeshResult(st) ==
    [status |-> "ok", points |-> st.points, cells |-> st.cells,
     point_data |-> st.point_data,
     cell_data |-> cell_data_from_raw(st.cells, st.cell_data_raw),
     field_data |-> <<>>, opened |-> st.opened]

ReadFail(e, opened) == [status |-> e, opened |-> opened]

(***************************************************************************)
(* XdmfReader.read_xdmf3                                                   *)
(***************************************************************************)

\* Lines 261-269: the single DataItem of a Topology child is resolved and
\* bound.
ResolveTopology3(c, st) ==
    LET got == read_data_item(c.children[1], "DataType")
        opened == st.opened \o got.opened
    IN  IF got.status # "ok" THEN ReadFail(got.status, opened)
        ELSE IF "Type" \notin DOMAIN c.attrib THEN ReadFail("KeyError", opened)
        ELSE IF c.attrib["Type"] = "Mixed"
        THEN LET dec == translate_mixed_cells(got.array)
             IN  IF dec.status # "ok" THEN ReadFail(dec.status, opened)
                 ELSE [status |-> "ok",
                       st |-> [st EXCEPT !.cells = dec.cells, !.opened = opened]]
        ELSE IF c.attrib["Type"] \notin DOMAIN xdmf_to_meshio_type
        THEN ReadFail("KeyError", opened)
        ELSE [status |-> "ok",
              st |-> [st EXCEPT
                        !.cells = DictSet(st.cells,
                                          xdmf_to_meshio_type[c.attrib["Type"]],
                                          got.array),
                        !.opened = opened]]

\* A variant of Topology3 that only requires a first DataItem.
Topology3AtLeastOne(c, st) ==
    IF Len(c.children) < 1 THEN ReadFail("AssertionError", st.opened)
    ELSE ResolveTopology3(c, st)

\* Lines 258-269: one Topology child.
Topology3(c, st) ==
    IF Len(c.children) # 1 THEN ReadFail("AssertionError", st.opened)
    ELSE ResolveTopology3(c, st)

\* Lines 271-276: one Geometry child.
Geometry3(c, st) ==
    IF "Type" \notin DOMAIN c.attrib THEN ReadFail("KeyError", st.opened)
    ELSE IF c.attrib["Type"] # "XYZ" THEN ReadFail("AssertionError", st.opened)
    ELSE IF Len(c.children) # 1 THEN ReadFail("AssertionError", st.opened)
    ELSE LET got == read_data_item(c.children[1], "DataType")
             opened == st.opened \o got.opened
         IN  IF got.status # "ok" THEN ReadFail(got.status, opened)
             ELSE [status |-> "ok",
                   st |-> [st EXCEPT !.points = got.array, !.opened = opened]]

\* Lines 278-295: any other child.
Attribute3(c, st) ==
    IF c.tag # "Attribute" THEN ReadFail("AssertionError", st.opened)
    ELSE IF "Type" \notin DOMAIN c.attrib THEN ReadFail("KeyError", st.opened)
    ELSE IF c.attrib["Type"] # "None" THEN ReadFail("AssertionError", st.opened)
    ELSE IF Len(c.children) # 1 THEN ReadFail("AssertionError", st.opened)
    ELSE LET got == read_data_item(c.children[1], "DataType")
             opened == st.opened \o got.opened
         IN  IF got.status # "ok" THEN ReadFail(got.status, opened)
             ELSE IF "Name" \notin DOMAIN c.attrib \/ "Center" \notin DOMAIN c.attrib
             THEN ReadFail("KeyError", opened)
             ELSE IF c.attrib["Center"] = "Node"
             THEN [status |-> "ok",
                   st |-> [st EXCEPT
                             !.point_data = DictSet(st.point_data, c.attrib["Name"],
                                                    got.array),
                             !.opened = opened]]
             ELSE IF c.attrib["Center"] # "Cell" THEN ReadFail("AssertionError", opened)
             ELSE [status |-> "ok",
                   st |-> [st EXCEPT
                             !.cell_data_raw = DictSet(st.cell_data_raw,
                                                       c.attrib["Name"], got.array),
                             !.opened = opened]]

\* The loop `for c in grid` of lines 257-295.
RECURSIVE Walk3(_, _)
Walk3(children, st) ==
    IF children = <<>> THEN [status |-> "ok", st |-> st]
    ELSE LET c == Head(children)
             step == IF c.tag = "Topology" THEN Topology3(c, st)
                     ELSE IF c.tag = "Geometry" THEN Geometry3(c, st)
                     ELSE Attribute3(c, st)
         IN  IF step.status # "ok" THEN step ELSE Walk3(Tail(children), step.st)

read_xdmf3(root) ==
    IF Len(root.children) # 1 THEN ReadFail("AssertionError", <<>>)
    ELSE IF root.children[1].tag # "Domain" THEN ReadFail("AssertionError", <<>>)
    ELSE IF Len(root.children[1].children) # 1 THEN ReadFail("AssertionError", <<>>)
    ELSE LET grid == root.children[1].children[1]
         IN  IF grid.tag # "Grid" THEN ReadFail("AssertionError", <<>>)
             ELSE LET walked == Walk3(grid.children, EmptyMesh)
                  IN  IF walked.status # "ok" THEN walked
                      ELSE MeshResult(walked.st)

(***************************************************************************)
(* XdmfReader.read_xdmf2                                                   *)
(***************************************************************************)

\* Lines 198-204: one Topology child.
Topology2(c, st) ==
    IF Len(c.children) # 1 THEN ReadFail("AssertionError", st.opened)
    ELSE IF "TopologyType" \notin DOMAIN c.attrib THEN ReadFail("KeyError", st.opened)
    ELSE IF c.attrib["TopologyType"] \notin DOMAIN xdmf_to_meshio_type
    THEN ReadFail("KeyError", st.opened)
    ELSE LET got == read_data_item(c.children[1], "NumberType")
             opened == st.opened \o got.opened
         IN  IF got.status # "ok" THEN ReadFail(got.status, opened)
             ELSE [status |-> "ok",
                   st |-> [st EXCEPT
                             !.cells = DictSet(st.cells,
                                               xdmf_to_meshio_type[c.attrib["TopologyType"]],
                                               got.array),
                             !.opened = opened]]

\* Lines 206-212: one Geometry child.
Geometry2(c, st) ==
    IF "GeometryType" \notin DOMAIN c.attrib THEN ReadFail("KeyError", st.opened)
    ELSE IF c.attrib["GeometryType"] # "XYZ" THEN ReadFail("AssertionError", st.opened)
    ELSE IF Len(c.children) # 1 THEN ReadFail("AssertionError", st.opened)
    ELSE LET got == read_data_item(c.children[1], "NumberType")
             opened == st.opened \o got.opened
         IN  IF got.status # "ok" THEN ReadFail(got.status, opened)
             ELSE [status |-> "ok",
                   st |-> [st EXCEPT !.points = got.array, !.opened = opened]]

\* Lines 214-233: any other child.
Attribute2(c, st) ==
    IF c.tag # "Attribute" THEN ReadFail("AssertionError", st.opened)
    ELSE IF Len(c.children) # 1 THEN ReadFail("AssertionError", st.opened)
    ELSE LET got == read_data_item(c.children[1], "NumberType")
             opened == st.opened \o got.opened
         IN  IF got.status # "ok" THEN ReadFail(got.status, opened)
             ELSE IF "Name" \notin DOMAIN c.attrib \/ "Center" \notin DOMAIN c.attrib
             THEN ReadFail("KeyError", opened)
             ELSE IF c.attrib["Center"] = "Node"
             THEN [status |-> "ok",
                   st |-> [st EXCEPT
                             !.point_data = DictSet(st.point_data, c.attrib["Name"],
                                                    got.array),
                             !.opened = opened]]
             ELSE IF c.attrib["Center"] = "Cell"
             THEN [status |-> "ok",
                   st |-> [st EXCEPT
                             !.cell_data_raw = DictSet(st.cell_data_raw,
                                                       c.attrib["Name"], got.array),
                             !.opened = opened]]
             ELSE IF c.attrib["Center"] # "Grid" THEN ReadFail("AssertionError", opened)
             ELSE [status |-> "ok", st |-> [st EXCEPT !.opened = opened]]

\* The loop `for c in grid` of lines 197-233.
RECURSIVE Walk2(_, _)
Walk2(children, st) ==
    IF children = <<>> THEN [status |-> "ok", st |-> st]
    ELSE LET c == Head(children)
             step == IF c.tag = "Topology" THEN Topology2(c, st)
                     ELSE IF c.tag = "Geometry" THEN Geometry2(c, st)
                     ELSE Attribute2(c, st)
         IN  IF step.status # "ok" THEN step ELSE Walk2(Tail(children), step.st)

\* A variant of GridCheck2 that does not look at the grid kind.
GridCheck2AnyKind(grid) ==
    IF grid.tag # "Grid" THEN "AssertionError" ELSE "ok"

\* Lines 187-189: the checks on the single grid.
GridCheck2(grid) ==
    IF grid.tag # "Grid" THEN "AssertionError"
    ELSE IF "GridType" \notin DOMAIN grid.attrib THEN "KeyError"
    ELSE IF grid.attrib["GridType"] # "Uniform" THEN "AssertionError"
    ELSE "ok"

read_xdmf2(root) ==
    IF Len(root.children) # 1 THEN ReadFail("AssertionError", <<>>)
    ELSE IF root.children[1].tag # "Domain" THEN ReadFail("AssertionError", <<>>)
    ELSE IF Len(root.children[1].children) # 1 THEN ReadFail("AssertionError", <<>>)
    ELSE LET grid == root.children[1].children[1]
         IN  IF GridCheck2(grid) # "ok" THEN ReadFail(GridCheck2(grid), <<>>)
             ELSE LET walked == Walk2(grid.children, EmptyMesh)
                  IN  IF walked.status # "ok" THEN walked
                      ELSE MeshResult(walked.st)

\* XdmfReader.read, on the parsed tree's root.
read(root) ==
    IF root.tag # "Xdmf" THEN ReadFail("AssertionError", <<>>)
    ELSE IF "Version" \notin DOMAIN root.attrib THEN ReadFail("KeyError", <<>>)
    ELSE IF Head(root.attrib["Version"]) = "2" THEN read_xdmf2(root)
    ELSE IF Head(root.attrib["Version"]) # "3" THEN ReadFail("AssertionError", <<>>)
    ELSE read_xdmf3(root)

(***************************************************************************)
(* write: the version-3 document tree of a mesh.                           *)
(***************************************************************************)
DataItem(data, dims, fmt) ==
    [tag |-> "DataItem",
     attrib |-> [DataType |-> numpy_to_xdmf_dtype[data.dtype][1],
                 Dimensions |-> dims,
                 Format |-> "XML",
                 Precision |-> numpy_to_xdmf_dtype[data.dtype][2]],
     children |-> <<>>,
     text |-> numpy_to_xml_string(data, fmt),
     ref |-> <<>>]

Rows(a) ==
    [i \in 1..LeadingDim(a) |-> SubSeq(a.flat, (i - 1) * RowSize(a) + 1, i * RowSize(a))]

\* Lines 364-367: numpy.column_stack([numpy.full(len(value), tag), value])
ColumnStack(tag, value) ==
    [dtype |-> value.dtype,
     shape |-> <<LeadingDim(value), RowSize(value) + 1>>,
     flat |-> Concat([i \in 1..LeadingDim(value) |-> <<tag>> \o Rows(value)[i]])]

\* Lines 362-368: the text of the Mixed DataItem, entry by entry of
\* cells.items(); a type without a mixed tag raises KeyError.
RECURSIVE MixedText(_)
MixedText(cells) ==
    IF cells = <<>> THEN [status |-> "ok", text |-> <<>>]
    ELSE IF Head(cells).key \notin DOMAIN meshio_type_to_xdmf_index
    THEN [status |-> "KeyError", text |-> <<>>]
    ELSE LET rest == MixedText(Tail(cells))
             d == ColumnStack(meshio_type_to_xdmf_index[Head(cells).key],
                              Head(cells).value)
         IN  IF rest.status # "ok" THEN rest
             ELSE [status |-> "ok",
                   text |-> numpy_to_xml_string(d, "%d") \o rest.text]

\* Lines 349-368: the Topology element of a mesh of several cell types.
MixedTopology(cells) ==
    LET total_num_cells == SumSeq([i \in 1..Len(cells) |-> LeadingDim(cells[i].value)])
        total_num_cell_items ==
            SumSeq([i \in 1..Len(cells) |-> Prod(cells[i].value.shape)])
        first == cells[1].value
        enc == MixedText(cells)
    IN  IF enc.status # "ok" THEN [status |-> enc.status]
        ELSE [status |-> "ok",
              topo |-> Element("Topology", [Type |-> "Mixed"],
                         <<[DataItem(first, <<total_num_cell_items + total_num_cells>>, "%d")
                              EXCEPT !.text = enc.text]>>)]

\* Lines 338-348: the Topology element of a mesh of one cell type.
SingleTopology(cells) ==
    LET meshio_type == cells[1].key IN
    IF meshio_type \notin DOMAIN meshio_to_xdmf_type THEN [status |-> "KeyError"]
    ELSE [status |-> "ok",
          topo |-> Element("Topology", [Type |-> meshio_to_xdmf_type[meshio_type]],
                     <<DataItem(cells[1].value, cells[1].value.shape, "%d")>>)]

\* Lines 337-368.
TopologyElements(cells) ==
    IF Len(cells) = 1
    THEN LET t == SingleTopology(cells)
         IN  IF t.status # "ok" THEN t ELSE [status |-> "ok", elems |-> <<t.topo>>]
    ELSE IF Len(cells) > 1
    THEN LET t == MixedTopology(cells)
         IN  IF t.status # "ok" THEN t ELSE [status |-> "ok", elems |-> <<t.topo>>]
    ELSE [status |-> "ok", elems |-> <<>>]

\* Lines 371-382 and 386-397: one Attribute element per entry.
AttributeElements(d, center) ==
    [i \in 1..Len(d) |->
        Element("Attribute",
                [Name |-> d[i].key, Type |-> "None", Center |-> center],
                <<DataItem(d[i].value, d[i].value.shape, "%.15e")>>)]

\* write(filename, points, cells, point_data, cell_data): the tree handed to
\* write_xml at line 401, or the exception raised before that call.
write(points, cells, point_data, cell_data) ==
    LET geo == Element("Geometry", [Origin |-> "", Type |-> "XYZ"],
                       <<DataItem(points, points.shape, "%.15e")>>)
        topo == TopologyElements(cells)
    IN  IF topo.status # "ok" THEN [status |-> topo.status]
        ELSE IF point_data.isNone THEN [status |-> "AttributeError"]
        ELSE
          LET grid == Element("Grid", [Name |-> "Grid"],
                        <<geo>> \o topo.elems
                        \o AttributeElements(point_data.dict, "Node")
                        \o AttributeElements(raw_from_cell_data(cell_data), "Cell"))
          IN  [status |-> "ok",
               doc |-> Element("Xdmf", [Version |-> <<"3", "0">>],
                         <<Element("Domain", <<>>, <<grid>>)>>)]

(***************************************************************************)
(* The cell types of the data model that have a mixed tag: name, node      *)
(* arity and tag.  The inputs below are drawn from it.                     *)
(***************************************************************************)
Table ==
    << [name |-> "vertex", arity |-> 1, tag |-> 1],
       [name |-> "triangle", arity |-> 3, tag |-> 4],
       [name |-> "triangle6", arity |-> 6, tag |-> 11],
       [name |-> "quad", arity |-> 4, tag |-> 5],
       [name |-> "tetra", arity |-> 4, tag |-> 6],
       [name |-> "pyramid", arity |-> 5, tag |-> 7],
       [name |-> "wedge", arity |-> 6, tag |-> 8],
       [name |-> "hexahedron", arity |-> 8, tag |-> 9] >>

TableNames == {Table[i].name : i \in 1..Len(Table)}

TableTags == {Table[i].tag : i \in 1..Len(Table)}

EntryOfName(n) == Table[CHOOSE i \in 1..Len(Table) : Table[i].name = n]

EntryOfTag(t) == Table[CHOOSE i \in 1..Len(Table) : Table[i].tag = t]

(***************************************************************************)
(* Inputs of the decoder: flat buffers.                                    *)
(***************************************************************************)
Starts == {0, 1}

UnknownTags == {-1, 0, 2, 3, 10, 12}

\* The node indices s, s+1, ... of one cell.
NodeRow(arity, s) == [j \in 1..arity |-> s + j - 1]

Records == {<<e.tag>> \o NodeRow(e.arity, s) : e \in Range(Table), s \in Starts}

RECURSIVE RecordBuffers(_)
RecordBuffers(n) ==
    IF n = 0 THEN {<<>>}
    ELSE LET shorter == RecordBuffers(n - 1)
         IN  shorter \cup {b \o rec : b \in shorter, rec \in Records}

\* Complete records, the last one cut after its tag and k < arity entries.
TruncatedBuffers ==
    UNION {{b \o SubSeq(rec, 1, k + 1) : k \in 0..(Len(rec) - 2)} :
             b \in RecordBuffers(MaxRecords - 1), rec \in Records}

\* Complete records followed by a record with a tag outside the table.
UnknownTagBuffers ==
    {b \o <<t>> \o rest :
        b \in RecordBuffers(MaxRecords - 1), t \in UnknownTags, rest \in {<<>>, <<0, 1>>}}

Buffers == RecordBuffers(MaxRecords) \cup TruncatedBuffers \cup UnknownTagBuffers

BufferArray(flat) == [dtype |-> "int64", shape |-> <<Len(flat)>>, flat |-> flat]

(***************************************************************************)
(* Inputs of the writer: meshes.                                           *)
(***************************************************************************)
\* An index array of n cells of the named type.
CellArray(name, n, s) ==
    LET arity == EntryOfName(name).arity
    IN  [dtype |-> "int64", shape |-> <<n, arity>>,
         flat |-> Concat([i \in 1..n |-> NodeRow(arity, s + i - 1)])]

CellArrays(name) == {CellArray(name, n, s) : n \in 1..MaxRows, s \in Starts}

TypedArrays == UNION {{[key |-> t, value |-> a] : a \in CellArrays(t)} : t \in TableNames}

\* Ordered mappings of exactly n distinct cell types.
RECURSIVE CellMapsOfLen(_)
CellMapsOfLen(n) ==
    IF n = 0 THEN {<<>>}
    ELSE {Append(m, e) :
            m \in CellMapsOfLen(n - 1),
            e \in TypedArrays}

DistinctKeys(m) == \A i, j \in 1..Len(m) : i # j => m[i].key # m[j].key

CellMaps(lo, hi) == UNION {{m \in CellMapsOfLen(n) : DistinctKeys(m)} : n \in lo..hi}

PointArrays ==
    { [dtype |-> "float64", shape |-> <<2, 3>>, flat |-> <<0, 10, 20, 30, 40, 50>>],
      [dtype |-> "float64", shape |-> <<2, 3>>, flat |-> <<0, 10, 20, 30, 40, 54>>],
      [dtype |-> "float32", shape |-> <<2, 3>>, flat |-> <<0, 10, 20, 30, 40, 50>>],
      [dtype |-> "int64", shape |-> <<2, 3>>, flat |-> <<0, 1, 2, 3, 4, 5>>] }

PointData ==
    <<[key |-> "p", value |-> [dtype |-> "float64", shape |-> <<2>>, flat |-> <<70, 80>>]]>>

\* One data set "c" on every cell: cell i of the type tagged t carries
\* the float 10 t + i.
CellData(cells) ==
    [k \in 1..Len(cells) |->
        [key |-> cells[k].key,
         value |-> <<[key |-> "c",
                      value |-> [dtype |-> "float64",
                                 shape |-> <<LeadingDim(cells[k].value)>>,
                                 flat |-> [i \in 1..LeadingDim(cells[k].value) |->
                                              10 * (10 * EntryOfName(cells[k].key).tag + i)]]]>>]]

Meshes ==
    {[points |-> p, cells |-> m, point_data |-> d[1], cell_data |-> d[2]] :
        p \in PointArrays,
        m \in CellMaps(0, MaxTypes),
        d \in {<<PyNone, PyNone>>, <<Some(<<>>), Some(<<>>)>> }}
    \cup
    {[points |-> p, cells |-> m, point_data |-> d, cell_data |-> Some(CellData(m))] :
        p \in PointArrays,
        m \in CellMaps(0, MaxTypes),
        d \in {PyNone, Some(PointData)}}

(***************************************************************************)
(* Inputs of the reader: documents.                                        *)
(***************************************************************************)
\* An inline DataItem of a document of the given major version; version 2
\* names the element type NumberType, version 3 DataType.
InlineItem(version, dims, values) ==
    [tag |-> "DataItem",
     attrib |-> IF version = "2"
                THEN [NumberType |-> "Int", Dimensions |-> dims,
                      Format |-> "XML", Precision |-> "8"]
                ELSE [DataType |-> "Int", Dimensions |-> dims,
                      Format |-> "XML", Precision |-> "8"],
     children |-> <<>>,
     text |-> [i \in 1..Len(values) |-> [fmt |-> "d", val |-> values[i]]],
     ref |-> <<>>]

TopologyChild(version, type, items) ==
    Element("Topology",
            IF version = "2" THEN [TopologyType |-> type] ELSE [Type |-> type],
            items)

GeometryChild(version) ==
    Element("Geometry",
            IF version = "2" THEN [GeometryType |-> "XYZ"] ELSE [Type |-> "XYZ"],
            <<InlineItem(version, <<2, 3>>, <<0, 1, 2, 3, 4, 5>>)>>)

AttributeChild(version, center) ==
    Element("Attribute", [Name |-> "a", Type |-> "None", Center |-> center],
            <<InlineItem(version, <<2>>, <<7, 8>>)>>)

Children(version) ==
    { TopologyChild(version, "Triangle", <<InlineItem(version, <<1, 3>>, <<0, 1, 2>>)>>),
      TopologyChild(version, "Triangle", <<InlineItem(version, <<1, 4>>, <<0, 1, 2, 3>>)>>),
      TopologyChild(version, "Quadrilateral",
                    <<InlineItem(version, <<1, 4>>, <<0, 1, 2, 3>>)>>),
      TopologyChild(version, "Triangle",
                    <<InlineItem(version, <<1, 3>>, <<0, 1, 2>>),
                      InlineItem(version, <<1, 3>>, <<1, 2, 3>>)>>),
      TopologyChild(version, "Triangle", <<>>),
      TopologyChild(version, "Mixed",
                    <<InlineItem(version, <<9>>, <<5, 0, 1, 2, 3, 4, 1, 2, 3>>)>>),
      TopologyChild(version, "Mixed",
                    <<InlineItem(version, <<8>>, <<5, 0, 1, 2, 3, 4, 1, 2>>)>>),
      GeometryChild(version),
      AttributeChild(version, "Node"),
      AttributeChild(version, "Cell"),
      Element("Information", [Name |-> "a"], <<>>) }

RECURSIVE ChildLists(_, _)
ChildLists(version, n) ==
    IF n = 0 THEN {<<>>}
    ELSE LET shorter == ChildLists(version, n - 1)
         IN  shorter \cup {Append(cs, c) : cs \in shorter, c \in Children(version)}

GridAttribs ==
    { [Name |-> "Grid"],
      [Name |-> "Grid", GridType |-> "Uniform"],
      [Name |-> "Grid", GridType |-> "Collection"] }

Document(major, domains) == Element("Xdmf", [Version |-> <<major, "0">>], domains)

\* Documents with one Domain holding one Grid.
GridDocuments ==
    UNION {{Document(v, <<Element("Domain", <<>>, <<Element("Grid", a, cs)>>)>>) :
              a \in GridAttribs, cs \in ChildLists(v, MaxChildren)} : v \in {"2", "3"}}

\* Documents with another number of domains or grids, another tag, or
\* another version.
OddDocuments ==
    LET grid(w) == Element("Grid", [Name |-> "Grid", GridType |-> "Uniform"],
                           <<GeometryChild(w)>>)
        domain(w) == Element("Domain", <<>>, <<grid(w)>>)
    IN  UNION {
          { Document(v, <<>>),
            Document(v, <<domain(v), domain(v)>>),
            Document(v, <<Element("Information", <<>>, <<grid(v)>>)>>),
            Document(v, <<Element("Domain", <<>>, <<>>)>>),
            Document(v, <<Element("Domain", <<>>, <<grid(v), grid(v)>>)>>),
            Document(v, <<Element("Domain", <<>>,
                            <<Element("Information", [Name |-> "Grid"], <<>>)>>)>>),
            [Document(v, <<domain(v)>>) EXCEPT !.tag = "Other"] } : v \in {"2", "3"}}
        \cup { Document("1", <<domain("3")>>) }

Documents == GridDocuments \cup OddDocuments

(***************************************************************************)
(* Inputs of the DataItem resolver: external references.                   *)
(***************************************************************************)
ExternalItem(ref) ==
    [tag |-> "DataItem",
     attrib |-> [DataType |-> "Int", Dimensions |-> <<1, 3>>,
                 Format |-> "HDF", Precision |-> "8"],
     children |-> <<>>, text |-> <<>>, ref |-> ref]

FileNames == {<<"data.h5">>, <<"more.h5">>, <<"gone.h5">>}

InternalPaths ==
    { <<"/", "a", "/", "b">>, <<"a", "/", "b">>, <<"/", "a", "/", "x">>,
      <<"/", "a">>, <<"/", "a", "/", "b", "/", "c">>, <<"/", "c">>, <<>>,
      <<"/", "x">>, <<"/">> }

DataItems ==
    {ExternalItem(<<f, h>>) : f \in FileNames, h \in InternalPaths}
    \cup {ExternalItem(<<f>>) : f \in FileNames}
    \cup {[ExternalItem(<<f, h>>) EXCEPT !.attrib["Format"] = "Binary"] :
            f \in FileNames, h \in {<<"/", "c">>}}
    \cup {InlineItem("3", <<1, 3>>, <<0, 1, 2>>), InlineItem("3", <<2, 2>>, <<0, 1, 2>>),
          InlineItem("2", <<1, 3>>, <<0, 1, 2>>)}

(***************************************************************************)
(* The state machine.  pc names the call that returned last, arg its       *)
(* arguments and ret what it returned or raised.  handles counts, per      *)
(* container file, the h5py.File handles that are open.  The codec, the    *)
(* writer and the reader keep no state between calls, so each of their     *)
(* calls is taken from the initial state; the resolver's calls follow one  *)
(* another, since the handles they leave open accumulate.                  *)
(***************************************************************************)
NoHandles == [f \in DOMAIN Containers |-> 0]

RECURSIVE AddOpened(_, _)
AddOpened(h, opened) ==
    IF opened = <<>> THEN h
    ELSE AddOpened([h EXCEPT ![Head(opened)] = @ + 1], Tail(opened))

RECURSIVE OpenCountOver(_, _)
OpenCountOver(h, files) ==
    IF files = {} THEN 0
    ELSE LET f == CHOOSE x \in files : TRUE
         IN  h[f] + OpenCountOver(h, files \ {f})

OpenCount(h) == OpenCountOver(h, DOMAIN h)

Init ==
    /\ pc = "idle"
    /\ arg = <<>>
    /\ ret = <<>>
    /\ handles = NoHandles

\* _translate_mixed_cells(data)
TranslateMixedCells ==
    /\ pc = "idle"
    /\ \E flat \in Buffers :
        /\ pc' = "translate"
        /\ arg' = [data |-> BufferArray(flat)]
        /\ ret' = translate_mixed_cells(BufferArray(flat))
        /\ UNCHANGED handles

\* The mixed encoding of write, read back: the Topology element write builds
\* for a mesh of several cell types, its DataItem resolved by read_data_item
\* and decoded by _translate_mixed_cells, as read_xdmf3 does.
MixedRoundTrip ==
    /\ pc = "idle"
    /\ \E m \in CellMaps(2, MaxTypes) :
        /\ pc' = "mixed_roundtrip"
        /\ arg' = [cells |-> m]
        /\ ret' = LET topo == MixedTopology(m)
                  IN  IF topo.status # "ok"
                      THEN [status |-> topo.status, cells |-> <<>>, reads |-> {}]
                      ELSE LET got == read_data_item(topo.topo.children[1], "DataType")
                           IN  IF got.status # "ok"
                               THEN [status |-> got.status, cells |-> <<>>, reads |-> {}]
                               ELSE translate_mixed_cells(got.array)
        /\ UNCHANGED handles

\* write(filename, points, cells, point_data, cell_data)
Write ==
    /\ pc = "idle"
    /\ \E mesh \in Meshes :
        /\ pc' = "write"
        /\ arg' = mesh
        /\ ret' = write(mesh.points, mesh.cells, mesh.point_data, mesh.cell_data)
        /\ UNCHANGED handles

\* write(...) followed by read(...) of the document written.
WriteRead ==
    /\ pc = "idle"
    /\ \E mesh \in Meshes :
        /\ pc' = "write_read"
        /\ arg' = mesh
        /\ ret' = LET w == write(mesh.points, mesh.cells, mesh.point_data, mesh.cell_data)
                  IN  IF w.status # "ok" THEN [status |-> w.status, stage |-> "write"]
                      ELSE [read(w.doc) EXCEPT !.opened = <<>>] @@ [stage |-> "read"]
        /\ UNCHANGED handles

\* XdmfReader(filename).read()
Read ==
    /\ pc = "idle"
    /\ \E doc \in Documents :
        /\ pc' = "read"
        /\ arg' = doc
        /\ ret' = read(doc)
        /\ handles' = AddOpened(handles, read(doc).opened)

\* XdmfReader.read_data_item(data_item).  The function never closes the
\* container it opens.  When it returns normally nothing refers to the
\* h5py.File any more and the runtime may already have finalized it; when
\* it raises, the frame the traceback holds still refers to it.
ReadDataItem ==
    \E item \in DataItems, finalized \in BOOLEAN :
        LET got == read_data_item(item, "DataType")
        IN  /\ OpenCount(handles) + Len(got.opened) <= MaxOpen
            /\ finalized => (got.status = "ok" /\ got.opened # <<>>)
            /\ pc' = "read_data_item"
            /\ arg' = item
            /\ ret' = got
            /\ handles' = IF finalized THEN handles ELSE AddOpened(handles, got.opened)

\* The runtime finalizes an h5py.File that nothing refers to.
Collect ==
    \E f \in DOMAIN Containers :
        /\ handles[f] > 0
        /\ pc' = "collect"
        /\ arg' = f
        /\ ret' = <<>>
        /\ handles' = [handles EXCEPT ![f] = @ - 1]

NextDecoder == TranslateMixedCells

NextWriter == Write \/ WriteRead \/ MixedRoundTrip

NextReader == Read

NextResolver == ReadDataItem \/ Collect

Next == NextDecoder \/ NextWriter \/ NextReader \/ NextResolver

Spec == Init /\ [][Next]_vars

SpecDecoder == Init /\ [][NextDecoder]_vars

SpecWriter == Init /\ [][NextWriter]_vars

SpecReader == Init /\ [][NextReader]_vars

SpecResolver == Init /\ [][NextResolver]_vars

(***************************************************************************)
(* What the claims refer to: the layout of a mixed buffer according to the *)
(* table of cell types, independently of the decoder.                      *)
(***************************************************************************)
\* The records of a buffer read by the table: kind is "complete" when the
\* records fill the buffer exactly, "truncated" when the last record starts
\* with a tag of the table and has fewer than arity entries after it, and
\* "unknown" when a record starts with a tag outside the table.
RECURSIVE TableParse(_, _, _)
TableParse(flat, r, recs) ==
    IF r >= Len(flat) THEN [kind |-> "complete", recs |-> recs]
    ELSE IF At(flat, r) \notin TableTags THEN [kind |-> "unknown", recs |-> recs]
    ELSE LET e == EntryOfTag(At(flat, r))
         IN  IF r + e.arity >= Len(flat) THEN [kind |-> "truncated", recs |-> recs]
             ELSE TableParse(flat, r + e.arity + 1,
                             Append(recs, [name |-> e.name,
                                           nodes |-> SubSeq(flat, r + 2, r + 1 + e.arity)]))

Layout(flat) == TableParse(flat, 0, <<>>)

\* The rows of one cell type among the records, in the order of the buffer.
RECURSIVE RowsOf(_, _)
RowsOf(recs, name) ==
    IF recs = <<>> THEN <<>>
    ELSE (IF Head(recs).name = name THEN <<Head(recs).nodes>> ELSE <<>>)
         \o RowsOf(Tail(recs), name)

\* The cell types among the records, in the order of first appearance.
RECURSIVE FirstAppearance(_, _)
FirstAppearance(recs, seen) ==
    IF recs = <<>> THEN seen
    ELSE FirstAppearance(Tail(recs),
                         IF Head(recs).name \in Range(seen) THEN seen
                         ELSE Append(seen, Head(recs).name))

\* The cells mapping `got` holds exactly the types of `want`, each with the
\* rows of `want` in their order.
SameCells(got, want) ==
    /\ Len(got) = Len(want)
    /\ \A i \in 1..Len(want) :
          /\ DictHas(got, want[i].key)
          /\ Rows(DictGet(got, want[i].key)) = Rows(want[i].value)

(***************************************************************************)
(* C1.  Mixed-cell codec round trip: decoding the buffer that write's      *)
(* mixed encoding produces for a mapping of table cell types to non-empty  *)
(* index arrays yields exactly the keys of the mapping, each with the same *)
(* rows in the same order.  Stated as the claim states it; the code breaks *)
(* it for triangle6.                                                       *)
(***************************************************************************)
C1_RoundTrip ==
    pc = "mixed_roundtrip" =>
        /\ ret.status = "ok"
        /\ SameCells(ret.cells, arg.cells)

(***************************************************************************)
(* C2.  End-to-end round trip: for a mesh with points, two or more cell    *)
(* types, point data and structured cell data, read(write(mesh)) has the   *)
(* same points, the same cell types with the same rows, the same point     *)
(* data, and for every data-set name and cell type the same cell-data      *)
(* values.  Stated as the claim states it; the code breaks it.             *)
(***************************************************************************)
SameCellData(got, want) ==
    \A i \in 1..Len(want) :
        /\ DictHas(got, want[i].key)
        /\ \A n \in 1..Len(want[i].value) :
              /\ DictHas(DictGet(got, want[i].key), want[i].value[n].key)
              /\ DictGet(DictGet(got, want[i].key), want[i].value[n].key)
                    = want[i].value[n].value

C2_EndToEnd ==
    (/\ pc = "write_read"
     /\ Len(arg.cells) >= 2
     /\ ~arg.point_data.isNone /\ arg.point_data.dict # <<>>
     /\ ~arg.cell_data.isNone /\ arg.cell_data.dict # <<>>)
    => /\ ret.status = "ok"
       /\ ret.points = arg.points
       /\ SameCells(ret.cells, arg.cells)
       /\ ret.point_data = arg.point_data.dict
       /\ SameCellData(ret.cell_data, arg.cell_data.dict)

(***************************************************************************)
(* C3.  Decoding a truncated buffer (the last record starts at a valid     *)
(* offset with a known tag and has fewer than arity entries after the tag) *)
(* raises an error: no cells mapping is returned, and no element at an     *)
(* offset at or beyond the length of the buffer is read.                   *)
(***************************************************************************)
C3_TruncatedFails ==
    (pc = "translate" /\ Layout(arg.data.flat).kind = "truncated") =>
        /\ ret.status # "ok"
        /\ ret.cells = <<>>
        /\ \A o \in ret.reads : 0 <= o /\ o < Len(arg.data.flat)

\* A buffer of one complete record and a truncated one has been decoded.
C3_Witness ==
    /\ pc = "translate"
    /\ Layout(arg.data.flat).kind = "truncated"
    /\ Len(Layout(arg.data.flat).recs) >= 1
    /\ ret.status = "IndexError"

(***************************************************************************)
(* C4.  As claimed: reading a document whose single grid contains two      *)
(* Topology children, each holding exactly one array descriptor, fails.    *)
(* The readers loop over the children and bind every Topology they meet,   *)
(* so the statement does not hold (C4_TwoTopologiesFail); what holds is    *)
(* C4_TopologyItems.                                                       *)
(***************************************************************************)
GridOf(doc) == doc.children[1].children[1]

HasGrid(doc) == Len(doc.children) = 1 /\ Len(doc.children[1].children) = 1

TopologyPositions(doc) ==
    {i \in 1..Len(GridOf(doc).children) : GridOf(doc).children[i].tag = "Topology"}

TwoTopologies(doc) ==
    /\ HasGrid(doc)
    /\ Cardinality(TopologyPositions(doc)) = 2
    /\ \A i \in TopologyPositions(doc) : Len(GridOf(doc).children[i].children) = 1

\* The document without the i-th child of its grid.
WithoutChild(doc, i) ==
    LET cs == GridOf(doc).children
    IN  [doc EXCEPT !.children[1].children[1].children =
            SubSeq(cs, 1, i - 1) \o SubSeq(cs, i + 1, Len(cs))]

C4_TwoTopologiesFail ==
    (pc = "read" /\ TwoTopologies(arg)) => ret.status # "ok"

\* C4, amended: a Topology child that does not hold exactly one array
\* descriptor makes the read fail; two Topology children that hold one
\* descriptor each are read without error whenever the document is read
\* without error with either of them left out.
C4_TopologyItems ==
    pc = "read" =>
        /\ (/\ HasGrid(arg)
            /\ \E i \in TopologyPositions(arg) :
                  Len(GridOf(arg).children[i].children) # 1)
           => ret.status # "ok"
        /\ (/\ TwoTopologies(arg)
            /\ \A i \in TopologyPositions(arg) : read(WithoutChild(arg, i)).status = "ok")
           => ret.status = "ok"

\* A document with two Topology children has been read and both cell types
\* are in the mesh returned.
C4_Witness ==
    /\ pc = "read"
    /\ TwoTopologies(arg)
    /\ ret.status = "ok"
    /\ Len(ret.cells) = 2

(***************************************************************************)
(* C5.  The decoder agrees with the table for every tag: a buffer of       *)
(* complete records with tags of the table decodes, each record's node     *)
(* indices bound to the table's cell type for its tag; a record with any   *)
(* other tag makes the decode fail.  Stated as the claim states it; the    *)
(* code breaks it for tag 11.                                              *)
(***************************************************************************)
C5_TableAgreement ==
    pc = "translate" =>
        LET layout == Layout(arg.data.flat)
            names == FirstAppearance(layout.recs, <<>>)
        IN  /\ layout.kind = "complete" =>
                  /\ ret.status = "ok"
                  /\ Len(ret.cells) = Len(names)
                  /\ \A i \in 1..Len(names) :
                        /\ DictHas(ret.cells, names[i])
                        /\ Rows(DictGet(ret.cells, names[i])) = RowsOf(layout.recs, names[i])
            /\ layout.kind = "unknown" => ret.status # "ok"

(***************************************************************************)
(* C6.  The writer is total: for every mesh of zero, one or several table  *)
(* cell types, with point_data and cell_data given or left at their        *)
(* defaults, write reaches the tree-serialization call.  Stated as the     *)
(* claim states it; the code breaks it.                                    *)
(***************************************************************************)
C6_WriterTotal == pc = "write" => ret.status = "ok"

(***************************************************************************)
(* C7.  The keys of the decoded cells mapping are in the order in which    *)
(* their tags first appear in the buffer.  Stated as the claim states it;  *)
(* the code orders them by ascending tag.                                  *)
(***************************************************************************)
C7_FirstAppearanceOrder ==
    (pc = "translate" /\ Layout(arg.data.flat).kind = "complete" /\ ret.status = "ok") =>
        DictKeys(ret.cells) = FirstAppearance(Layout(arg.data.flat).recs, <<>>)

(***************************************************************************)
(* C8.  As claimed: both readers accept a document only if it has exactly  *)
(* one Domain holding exactly one Grid whose declared kind is Uniform.     *)
(* read_xdmf3 never looks at the grid kind (and write declares none), so   *)
(* the statement does not hold (C8_UniformRequired); what holds is         *)
(* C8_GridStructure.                                                       *)
(***************************************************************************)
Major(doc) == Head(doc.attrib["Version"])

OneDomainOneGrid(doc) ==
    /\ Len(doc.children) = 1
    /\ doc.children[1].tag = "Domain"
    /\ Len(doc.children[1].children) = 1
    /\ GridOf(doc).tag = "Grid"

DeclaresUniform(doc) ==
    /\ "GridType" \in DOMAIN GridOf(doc).attrib
    /\ GridOf(doc).attrib["GridType"] = "Uniform"

WithGridAttrib(doc, a) == [doc EXCEPT !.children[1].children[1].attrib = a]

C8_UniformRequired ==
    (pc = "read" /\ ret.status = "ok") =>
        (OneDomainOneGrid(arg) /\ DeclaresUniform(arg))

\* C8, amended: a document is accepted only if it has exactly one Domain
\* holding exactly one Grid; the version-2 reader also requires the grid to
\* declare the kind Uniform; the version-3 reader reads a document the same
\* whatever kind its grid declares or omits.
C8_GridStructure ==
    pc = "read" =>
        /\ ret.status = "ok" => OneDomainOneGrid(arg)
        /\ (ret.status = "ok" /\ Major(arg) = "2") => DeclaresUniform(arg)
        /\ (Major(arg) = "3" /\ HasGrid(arg)) =>
              \A a \in GridAttribs : read(WithGridAttrib(arg, a)) = ret

\* A version-3 document whose grid declares no Uniform kind has been read
\* and a mesh with cells returned.
C8_Witness ==
    /\ pc = "read"
    /\ Major(arg) = "3"
    /\ OneDomainOneGrid(arg)
    /\ ~DeclaresUniform(arg)
    /\ ret.status = "ok"
    /\ ret.cells # <<>>

(***************************************************************************)
(* C9.  Every mesh a read returns has, for each cell type, an index array  *)
(* whose second dimension is the arity of the type.  Stated as the claim   *)
(* states it; the code returns a single-type array with whatever row       *)
(* length the document declares.                                           *)
(***************************************************************************)
C9_ArityInvariant ==
    (pc = "read" /\ ret.status = "ok") =>
        \A i \in 1..Len(ret.cells) :
            /\ Len(ret.cells[i].value.shape) = 2
            /\ ret.cells[i].value.shape[2] = EntryOfName(ret.cells[i].key).arity

(***************************************************************************)
(* C10.  Every container the resolver opens is released before the call    *)
(* returns, on every exit path: once read_data_item has returned or raised *)
(* no handle is open.  Stated as the claim states it; the code never       *)
(* closes the file.                                                        *)
(***************************************************************************)
C10_HandlesReleased == pc = "read_data_item" => OpenCount(handles) = 0

====
